---- MODULE Spec2Model ----
(***************************************************************************)
(* terrain_3d_prepare (src/src/main.rs): the TerrainApp state, the load    *)
(* threads spawned by load_image, the run thread spawned by                *)
(* process_and_save_images, and the per-frame handler update().            *)
(*                                                                         *)
(* One frame of update() is one action: it drains image_receiver, polls    *)
(* processing_receiver once, and then handles at most one widget click.    *)
(* Background threads take one step each: they compute their result and    *)
(* send it on their channel (or die by panic, sending nothing).            *)
(*                                                                         *)
(* Pixel buffers are kept at a set of probe offsets (Probes): validated    *)
(* images have at least 512*512 pixels, so a buffer is represented by the  *)
(* pixels at the corners and edges of its first rows and of its last row.  *)
(***************************************************************************)
EXTENDS Integers, Sequences, FiniteSets, TLC

-----------------------------------------------------------------------------
(* Bounds of the model *)

\* path selections (load threads spawned) in one session
MaxSelects == 3
\* load threads running or with a result still queued, at any one time
MaxInFlight == 2
\* widget clicks (of any kind) in one session
MaxClicks == 5
\* leading rows of a buffer that are probed (the last row always is)
ProbeRows == 2
\* widths and heights fed to validate_image in SpecValidate: multiples of 128
\* up to 128 * MaxDimSteps (and a few odd sizes)
MaxDimSteps == 12

-----------------------------------------------------------------------------
(* Program constants *)

MinSize == 512
PreviewSize == 512
AlphaOpaque == 255
DefaultSmoothness == 128
ChannelMax == 255

-----------------------------------------------------------------------------
(* Option and Result values *)

None == <<>>
Some(v) == <<v>>
IsSome(o) == o # <<>>
Unwrap(o) == o[1]

Ok(v) == <<"Ok", v>>
Err(e) == <<"Err", e>>
IsOk(r) == r[1] = "Ok"

-----------------------------------------------------------------------------
(* Enums *)

NormalMapFormat == {"OpenGL", "DirectX"}
OutputFormat == {"PNG", "DDS"}
RoughnessFormat == {"Roughness", "Smoothness"}

NotLoaded == <<"NotLoaded">>
Loading == <<"Loading">>
Loaded == <<"Loaded">>
LoadError(e) == <<"Error", e>>

NotStarted == <<"NotStarted">>
Processing == <<"Processing">>
Done == <<"Done">>
ProcessingError(e) == <<"Error", e>>

ImageValidationError == {"NotSquare", "NotPowerOfTwo", "TooSmall"}

Display(e) ==
  CASE e = "NotSquare" -> "Image must be square"
    [] e = "NotPowerOfTwo" -> "Image dimensions must be power of 2"
    [] e = "TooSmall" -> "Image must be at least 512x512"

-----------------------------------------------------------------------------
(* The input slots (the image_type tags of the load channel) *)

Slots == {"albedo", "height", "normal", "ao", "roughness"}
RequiredSlots == {"albedo", "normal"}
OptionalSlots == {"height", "ao", "roughness"}

-----------------------------------------------------------------------------
(* The files the user can pick, and what image::open yields for each *)

Files == {"bad.png", "small.png", "a512.png", "b1024.png"}

\* what the user picks from for each slot: two valid images of different size,
\* and one that fails (to decode for a required slot, to validate for an
\* optional one)
Pickable(s) ==
  IF s \in {"albedo", "normal"}
  THEN {"bad.png", "a512.png", "b1024.png"}
  ELSE {"small.png", "a512.png", "b1024.png"}
Dirs == {"out1", "out2"}

FileSide(f) ==
  CASE f = "small.png" -> 256
    [] f = "a512.png" -> 512
    [] f = "b1024.png" -> 1024
    [] OTHER -> 0

\* the RGBA8 pixel at (x, y) of a decoded file
FilePixel(f, x, y) ==
  IF f = "a512.png"
  THEN << (3 * x + y + 7) % 256, (x + 2 * y + 20) % 256,
          (x + 5 * y + 90) % 256, (x + y + 200) % 256 >>
  ELSE << (2 * x + 3 * y + 11) % 256, (5 * x + y + 64) % 256,
          (x + 7 * y + 130) % 256, (3 * x + 2 * y + 33) % 256 >>

\* a DynamicImage: its dimensions and where its pixels come from
DynImage(f) == [width |-> FileSide(f), height |-> FileSide(f), file |-> f]

ImageOpen(path) ==
  IF path = "bad.png" THEN Err("Format error decoding Png") ELSE Ok(DynImage(path))

\* GenericImageView::get_pixel panics outside the image
InBounds(img, x, y) == x < img.width /\ y < img.height
GetPixel(img, x, y) == FilePixel(img.file, x, y)

-----------------------------------------------------------------------------
(* validate_image, process_image, load_image *)

RECURSIVE IsPowerOfTwo(_)
IsPowerOfTwo(n) ==
  IF n <= 0 THEN FALSE
  ELSE IF n = 1 THEN TRUE
  ELSE n % 2 = 0 /\ IsPowerOfTwo(n \div 2)

\* mutant: the size rule is checked before the power-of-two rule
validate_image_SizeFirst(img) ==
  IF img.width # img.height THEN Err("NotSquare")
  ELSE IF img.width < MinSize THEN Err("TooSmall")
  ELSE IF ~IsPowerOfTwo(img.width) THEN Err("NotPowerOfTwo")
  ELSE Ok(<<>>)

validate_image(img) ==
  IF img.width # img.height THEN Err("NotSquare")
  ELSE IF ~IsPowerOfTwo(img.width) THEN Err("NotPowerOfTwo")
  ELSE IF img.width < MinSize THEN Err("TooSmall")
  ELSE Ok(<<>>)

\* mutant: the preview is the image at half its size
ResizeExact_Halve(img, nw, nh) ==
  [width |-> img.width \div 2, height |-> img.height \div 2, of |-> img]

\* resize_exact(512, 512, Nearest).to_rgba8(): the preview samples the original
ResizeExact(img, nw, nh) == [width |-> nw, height |-> nh, of |-> img]

\* mutant: the validation result is dropped
process_image_Unchecked(img) ==
  Ok([original |-> img,
      downscaled |-> ResizeExact(img, PreviewSize, PreviewSize)])

process_image(img) ==
  LET v == validate_image(img) IN
  IF ~IsOk(v) THEN Err(Display(v[2]))
  ELSE Ok([original |-> img,
           downscaled |-> ResizeExact(img, PreviewSize, PreviewSize)])

\* the closure run by the thread load_image spawns
LoadThreadResult(path) ==
  LET r == ImageOpen(path) IN
  IF IsOk(r) THEN process_image(r[2]) ELSE r

process_image_to_texture(processed) ==
  [size |-> <<processed.downscaled.width, processed.downscaled.height>>,
   pixels |-> processed.downscaled]

-----------------------------------------------------------------------------
(* State *)

VARIABLES
  map,                \* albedo_map, height_map, ... : Option<PathBuf> per slot
  load_state,         \* *_load_state : ImageLoadState per slot
  image,              \* *_image : Option<ProcessedImage> per slot
  texture,            \* *_texture : Option<TextureHandle> per slot
  normal_map_format,
  roughness_format,
  output_format,
  output_directory,   \* Option<PathBuf>
  processing_state,
  image_channel,      \* image_sender -> image_receiver, FIFO
  processing_channel, \* processing_sender -> processing_receiver, FIFO
  load_tasks,         \* running load threads: <<slot, path>> -> how many
  run_tasks,          \* running run threads (their captured values)
  disk,               \* output files: <<dir, name>> -> Option<content>
  write_log,          \* the file writes so far, in order
  selects,            \* number of load threads spawned since the initial state
  clicks,             \* number of widget clicks handled since the initial state
  runs,               \* number of run threads spawned so far
  probe               \* input and output of the pure function under test

vars == << map, load_state, image, texture, normal_map_format, roughness_format,
           output_format, output_directory, processing_state, image_channel,
           processing_channel, load_tasks, run_tasks, disk, write_log,
           selects, clicks, runs, probe >>

config == << normal_map_format, roughness_format, output_format, output_directory >>
background == << load_tasks, run_tasks, disk, write_log >>

OutNames == {"albedo.png", "normal.png", "albedo.dds", "normal.dds"}
OutPaths == Dirs \X OutNames

TerrainAppDefault ==
  /\ map = [s \in Slots |-> None]
  /\ load_state = [s \in Slots |-> NotLoaded]
  /\ image = [s \in Slots |-> None]
  /\ texture = [s \in Slots |-> None]
  /\ normal_map_format = "OpenGL"
  /\ roughness_format = "Roughness"
  /\ output_format = "PNG"
  /\ output_directory = None
  /\ processing_state = NotStarted
  /\ image_channel = <<>>
  /\ processing_channel = <<>>
  /\ load_tasks = [t \in Slots \X Files |-> 0]
  /\ run_tasks = {}
  /\ disk = [p \in OutPaths |-> None]
  /\ write_log = <<>>
  /\ selects = 0
  /\ clicks = 0
  /\ runs = 0

Init == TerrainAppDefault /\ probe = <<>>

-----------------------------------------------------------------------------
(* The compositor: the closure of the thread process_and_save_images spawns *)

ProbeCols(w) == {0, 1, w - 1}
ProbeRowSet(h) == (0 .. (ProbeRows - 1)) \cup {h - 1}
Probes(w, h) == { y * w + x : x \in ProbeCols(w), y \in ProbeRowSet(h) }

\* DynamicImage::to_rgba8 of an RGBA8 image
ToRgba8(img) ==
  [width |-> img.width, height |-> img.height,
   px |-> [i \in Probes(img.width, img.height) |->
             GetPixel(img, i % img.width, i \div img.width)]]

\* DynamicImage::to_luma8: the image crate's integer sRGB luma of each pixel
RgbToLuma(p) == (2126 * p[1] + 7152 * p[2] + 722 * p[3]) \div 10000
LumaPixel(img, x, y) == RgbToLuma(GetPixel(img, x, y))

\* some pixel's get_pixel(x, y) on the contributor is out of range: the pass panics
PassPanics(buf, contributor) ==
  \E b \in {buf} : \E i \in DOMAIN b.px :
    ~InBounds(contributor, i % b.width, i \div b.width)

\* f32 arithmetic. A positive f32 is kept as [m, s]: the value m / 2^s with a
\* 24-bit significand m (2^23 <= m <= 2^24); zero is [m |-> 0, s |-> 0].
F32Bits == 24

\* the quotient q + r/255 developed bit by bit until the significand is full,
\* then rounded to nearest (255 is odd: there are no ties)
RECURSIVE F32Div255Step(_, _, _)
F32Div255Step(m, r, s) ==
  IF m >= 2 ^ (F32Bits - 1)
  THEN [m |-> IF 2 * r > ChannelMax THEN m + 1 ELSE m, s |-> s]
  ELSE IF 2 * r >= ChannelMax
       THEN F32Div255Step(2 * m + 1, 2 * r - ChannelMax, s + 1)
       ELSE F32Div255Step(2 * m, 2 * r, s + 1)

\* ao as f32 / 255.0
F32Div255(a) ==
  IF a = 0 THEN [m |-> 0, s |-> 0]
  ELSE F32Div255Step(a \div ChannelMax, a % ChannelMax, 0)

AoVal == [a \in 0 .. ChannelMax |-> F32Div255(a)]

RECURSIVE BitLen(_)
BitLen(n) == IF n = 0 THEN 0 ELSE 1 + BitLen(n \div 2)

\* (c as f32 * v) as u8: the exact product c * v.m (kept in two 12-bit halves,
\* H * 4096 + L) is rounded to 24 significant bits, ties to even, and the
\* cast truncates toward zero and saturates
F32MulToU8(c, v) ==
  LET lo == c * (v.m % 4096)
      H == c * (v.m \div 4096) + lo \div 4096
      L == lo % 4096
      b == IF H = 0 THEN BitLen(L) ELSE 12 + BitLen(H)
      d == IF b > F32Bits THEN b - F32Bits ELSE 0
      kept == H * 2 ^ (12 - d) + L \div 2 ^ d
      dropped == L % 2 ^ d
      rounded == IF d > 0 /\ (2 * dropped > 2 ^ d
                               \/ (2 * dropped = 2 ^ d /\ kept % 2 = 1))
                 THEN kept + 1 ELSE kept
      t == IF v.s - d > F32Bits THEN 0 ELSE rounded \div 2 ^ (v.s - d)
  IN IF t > ChannelMax THEN ChannelMax ELSE t

\* the products of every channel value with every AO luminance, computed once
AoProduct ==
  [a \in 0 .. ChannelMax |-> [c \in 0 .. ChannelMax |-> F32MulToU8(c, AoVal[a])]]

\* mutant: the product is rounded to the nearest integer, not truncated
AoMultiply_Nearest(c, ao) == (2 * c * ao + ChannelMax) \div (2 * ChannelMax)

\* (pixel[k] as f32 * ao_val) as u8, with ao_val = ao as f32 / 255.0
AoMultiply(c, ao) == AoProduct[ao][c]

\* The closures of the passes: the new value of one pixel
AoPixel(pixel, ao_val) ==
  << AoMultiply(pixel[1], ao_val), AoMultiply(pixel[2], ao_val),
     AoMultiply(pixel[3], ao_val), pixel[4] >>

\* mutant: the height is blended with the alpha already there
HeightPixel_Blend(pixel, value) ==
  << pixel[1], pixel[2], pixel[3], (pixel[4] + value) \div 2 >>

HeightPixel(pixel, value) == << pixel[1], pixel[2], pixel[3], value >>

OpaquePixel(pixel) == << pixel[1], pixel[2], pixel[3], AlphaOpaque >>

\* mutant: the red channel is inverted instead of the green one
DirectXPixel_Red(p) == << ChannelMax - p[1], p[2], p[3], p[4] >>

DirectXPixel(p) == << p[1], ChannelMax - p[2], p[3], p[4] >>

\* mutant: the inversion is applied to the other encoding
RoughnessAlpha_Swapped(value, fmt) ==
  IF fmt = "Roughness" THEN ChannelMax - value ELSE value

RoughnessAlpha(value, fmt) ==
  IF fmt = "Roughness" THEN value ELSE ChannelMax - value

RoughnessPixel(pixel, value, fmt) ==
  << pixel[1], pixel[2], pixel[3], RoughnessAlpha(value, fmt) >>

DefaultSmoothnessPixel(pixel) ==
  << pixel[1], pixel[2], pixel[3], DefaultSmoothness >>

\* The passes: par_iter_mut().enumerate().for_each rewrites every pixel i by the
\* pass's closure, which looks the contributor up at (i % width, i / width),
\* width being the buffer's. (The buffer is bound by the set constructor so
\* that it is evaluated once.)
AoPass(buf, ao) ==
  CHOOSE r \in
    { [b EXCEPT !.px = [i \in DOMAIN b.px |->
         AoPixel(b.px[i], LumaPixel(ao, i % b.width, i \div b.width))]] :
      b \in {buf} } : TRUE

HeightPass(buf, height) ==
  CHOOSE r \in
    { [b EXCEPT !.px = [i \in DOMAIN b.px |->
         HeightPixel(b.px[i], LumaPixel(height, i % b.width, i \div b.width))]] :
      b \in {buf} } : TRUE

OpaquePass(buf) ==
  CHOOSE r \in
    { [b EXCEPT !.px = [i \in DOMAIN b.px |-> OpaquePixel(b.px[i])]] :
      b \in {buf} } : TRUE

DirectXPass(buf) ==
  CHOOSE r \in
    { [b EXCEPT !.px = [i \in DOMAIN b.px |-> DirectXPixel(b.px[i])]] :
      b \in {buf} } : TRUE

RoughnessPass(buf, roughness, fmt) ==
  CHOOSE r \in
    { [b EXCEPT !.px = [i \in DOMAIN b.px |->
         RoughnessPixel(b.px[i],
                        LumaPixel(roughness, i % b.width, i \div b.width), fmt)]] :
      b \in {buf} } : TRUE

DefaultSmoothnessPass(buf) ==
  CHOOSE r \in
    { [b EXCEPT !.px = [i \in DOMAIN b.px |-> DefaultSmoothnessPixel(b.px[i])]] :
      b \in {buf} } : TRUE

Panic == <<"Panic">>

\* lines 267-299: albedo + AO + height; Ok(buffer) or Panic
AlbedoPipeline(t) ==
  LET final_texture == ToRgba8(t.albedo)
      aoPanics == IsSome(t.ao) /\ PassPanics(final_texture, Unwrap(t.ao).original)
      afterAo == IF IsSome(t.ao) /\ ~aoPanics
                 THEN AoPass(final_texture, Unwrap(t.ao).original)
                 ELSE final_texture
      heightPanics == IsSome(t.height) /\ PassPanics(afterAo, Unwrap(t.height))
  IN IF aoPanics \/ heightPanics THEN Panic
     ELSE IF IsSome(t.height) THEN Ok(HeightPass(afterAo, Unwrap(t.height)))
     ELSE Ok(OpaquePass(afterAo))

\* lines 302-332: normal + DirectX flip + roughness; Ok(buffer) or Panic
NormalPipeline(t) ==
  LET normal_image == ToRgba8(t.normal)
      flipped == IF t.normal_format = "DirectX"
                 THEN DirectXPass(normal_image) ELSE normal_image
  IN IF IsSome(t.roughness)
     THEN IF PassPanics(flipped, Unwrap(t.roughness).original) THEN Panic
          ELSE Ok(RoughnessPass(flipped, Unwrap(t.roughness).original,
                                t.roughness_format))
     ELSE Ok(DefaultSmoothnessPass(flipped))

\* ImageBuffer::save as PNG; ok says whether the file system accepts the write
save_png(buf, ok) == IF ok THEN Ok(<<>>) ELSE Err("io error")

\* BC3 DDS with generated mipmaps, File::create, write
save_as_dds(img, ok) == IF ok THEN Ok(<<>>) ELSE Err("Failed to create file: io error")

AlbedoName(fmt) == IF fmt = "PNG" THEN "albedo.png" ELSE "albedo.dds"
\* mutant: the normal buffer is saved under the albedo file's name
NormalName_AsAlbedo(fmt) == IF fmt = "PNG" THEN "albedo.png" ELSE "albedo.dds"

NormalName(fmt) == IF fmt = "PNG" THEN "normal.png" ELSE "normal.dds"
Save(fmt, buf, ok) == IF fmt = "PNG" THEN save_png(buf, ok) ELSE save_as_dds(buf, ok)

\* mutant: a failed albedo write does not stop the normal file being written
RunThreadOutcome_KeepGoing(t, albedoOk, normalOk) ==
  LET a == AlbedoPipeline(t)
      n == NormalPipeline(t)
      dir == t.output_dir
      aw == [run |-> t.id, path |-> <<dir, AlbedoName(t.output_format)>>,
             format |-> t.output_format, buf |-> a[2]]
      nw == [run |-> t.id, path |-> <<dir, NormalName(t.output_format)>>,
             format |-> t.output_format, buf |-> n[2]]
      ar == Save(t.output_format, a[2], albedoOk)
      nr == Save(t.output_format, n[2], normalOk)
  IN IF a = Panic \/ n = Panic
     THEN [panicked |-> TRUE, result |-> Err("panic"), writes |-> <<>>]
     ELSE IF ~IsOk(ar) /\ ~IsOk(nr)
     THEN [panicked |-> FALSE, result |-> ar, writes |-> <<>>]
     ELSE IF ~IsOk(ar)
     THEN [panicked |-> FALSE, result |-> ar, writes |-> <<nw>>]
     ELSE IF ~IsOk(nr)
     THEN [panicked |-> FALSE, result |-> nr, writes |-> <<aw>>]
     ELSE [panicked |-> FALSE, result |-> Ok(<<>>), writes |-> <<aw, nw>>]

\* What the run thread does with its captured values t when the two writes
\* succeed or fail as albedoOk / normalOk say:
\*   panicked: the thread died before tx.send
\*   result:   what it sends
\*   writes:   the files it wrote, in order
RunThreadOutcome(t, albedoOk, normalOk) ==
  LET a == AlbedoPipeline(t)
      n == NormalPipeline(t)
      dir == t.output_dir
      aw == [run |-> t.id, path |-> <<dir, AlbedoName(t.output_format)>>,
             format |-> t.output_format, buf |-> a[2]]
      nw == [run |-> t.id, path |-> <<dir, NormalName(t.output_format)>>,
             format |-> t.output_format, buf |-> n[2]]
      ar == Save(t.output_format, a[2], albedoOk)
      nr == Save(t.output_format, n[2], normalOk)
  IN IF a = Panic \/ n = Panic
     THEN [panicked |-> TRUE, result |-> Err("panic"), writes |-> <<>>]
     ELSE IF ~IsOk(ar)
     THEN [panicked |-> FALSE, result |-> ar, writes |-> <<>>]
     ELSE IF ~IsOk(nr)
     THEN [panicked |-> FALSE, result |-> nr, writes |-> <<aw>>]
     ELSE [panicked |-> FALSE, result |-> Ok(<<>>), writes |-> <<aw, nw>>]

-----------------------------------------------------------------------------
(* update(): the receiving half of a frame (lines 402-451) *)

\* mutant: an Ok result resets every slot that shows an error
ApplyLoadResult_OkResetsErrors(st, msg) ==
  LET image_type == msg[1]
      result == msg[2]
  IN IF IsOk(result)
     THEN [load_state |-> [s \in Slots |->
                             IF s = image_type THEN Loaded
                             ELSE IF st.load_state[s][1] = "Error" THEN NotLoaded
                             ELSE st.load_state[s]],
           image |-> [st.image EXCEPT ![image_type] = Some(result[2])],
           texture |-> [st.texture EXCEPT ![image_type] =
                          Some(process_image_to_texture(result[2]))]]
     ELSE [st EXCEPT !.load_state[image_type] = LoadError(result[2])]

\* mutant: an Err result drops the slot's preview
ApplyLoadResult_ErrorDropsPreview(st, msg) ==
  LET image_type == msg[1]
      result == msg[2]
  IN IF IsOk(result)
     THEN [load_state |-> [st.load_state EXCEPT ![image_type] = Loaded],
           image |-> [st.image EXCEPT ![image_type] = Some(result[2])],
           texture |-> [st.texture EXCEPT ![image_type] =
                          Some(process_image_to_texture(result[2]))]]
     ELSE [load_state |-> [st.load_state EXCEPT ![image_type] = LoadError(result[2])],
           image |-> st.image,
           texture |-> [st.texture EXCEPT ![image_type] = None]]

\* mutant: an Err result also drops the slot's image and preview
ApplyLoadResult_ErrorClears(st, msg) ==
  LET image_type == msg[1]
      result == msg[2]
  IN IF IsOk(result)
     THEN [load_state |-> [st.load_state EXCEPT ![image_type] = Loaded],
           image |-> [st.image EXCEPT ![image_type] = Some(result[2])],
           texture |-> [st.texture EXCEPT ![image_type] =
                          Some(process_image_to_texture(result[2]))]]
     ELSE [load_state |-> [st.load_state EXCEPT ![image_type] = LoadError(result[2])],
           image |-> [st.image EXCEPT ![image_type] = None],
           texture |-> [st.texture EXCEPT ![image_type] = None]]

\* one iteration of the while-let loop: the match on (image_type, result)
ApplyLoadResult(st, msg) ==
  LET image_type == msg[1]
      result == msg[2]
  IN IF IsOk(result)
     THEN [load_state |-> [st.load_state EXCEPT ![image_type] = Loaded],
           image |-> [st.image EXCEPT ![image_type] = Some(result[2])],
           texture |-> [st.texture EXCEPT ![image_type] =
                          Some(process_image_to_texture(result[2]))]]
     ELSE [st EXCEPT !.load_state[image_type] = LoadError(result[2])]

\* mutant: only the first queued result is applied
DrainImages_FirstOnly(st, ch) ==
  IF ch = <<>> THEN st ELSE ApplyLoadResult(st, Head(ch))

\* while let Ok(..) = image_receiver.try_recv(): every queued result, in order
RECURSIVE DrainImages(_, _)
DrainImages(st, ch) ==
  IF ch = <<>> THEN st ELSE DrainImages(ApplyLoadResult(st, Head(ch)), Tail(ch))

Received ==
  DrainImages([load_state |-> load_state, image |-> image, texture |-> texture],
              image_channel)

\* mutant: an empty channel (try_recv's Err) is taken for a finished run
PolledProcessingState_EmptyIsDone ==
  IF processing_channel = <<>> THEN Done
  ELSE IF IsOk(Head(processing_channel).result) THEN Done
  ELSE ProcessingError(Head(processing_channel).result[2])

\* if let Ok(result) = processing_receiver.try_recv(): at most one result
PolledProcessingState ==
  IF processing_channel = <<>> THEN processing_state
  ELSE IF IsOk(Head(processing_channel).result) THEN Done
  ELSE ProcessingError(Head(processing_channel).result[2])

Receive ==
  /\ image_channel' = <<>>
  /\ processing_channel' =
       IF processing_channel = <<>> THEN <<>> ELSE Tail(processing_channel)

-----------------------------------------------------------------------------
(* update(): one frame, by the widget that was clicked in it *)

are_required_images_loaded(ls, dir) ==
  ls["albedo"] = Loaded /\ ls["normal"] = Loaded /\ IsSome(dir)

\* mutant: the button stays enabled while a run is in progress
RunEnabled_WhileProcessing(ls, dir, ps) ==
  are_required_images_loaded(ls, dir)

RunEnabled(ls, dir, ps) ==
  are_required_images_loaded(ls, dir) /\ ps # Processing

\* load threads that have not delivered yet: running, or their result queued
InFlight ==
  LET RECURSIVE Sum(_)
      Sum(S) == IF S = {} THEN 0
                ELSE LET t == CHOOSE t \in S : TRUE IN load_tasks[t] + Sum(S \ {t})
  IN Sum(Slots \X Files) + Len(image_channel)

Click == clicks < MaxClicks /\ clicks' = clicks + 1

\* no click: the frame only receives
UpdateIdle ==
  /\ Receive
  /\ load_state' = Received.load_state
  /\ image' = Received.image
  /\ texture' = Received.texture
  /\ processing_state' = PolledProcessingState
  /\ UNCHANGED << map, config, background, selects, clicks, runs, probe >>

\* "Select ... Map" and a file picked: lines 470-478, 497-505, 528-536, 563-571, 596-604
UpdateSelectMap(s, path) ==
  /\ selects < MaxSelects
  /\ InFlight < MaxInFlight
  /\ Click
  /\ Receive
  /\ map' = [map EXCEPT ![s] = Some(path)]
  /\ load_state' = [Received.load_state EXCEPT ![s] = Loading]
  /\ image' = Received.image
  /\ texture' = Received.texture
  /\ processing_state' = PolledProcessingState
  /\ load_tasks' = [load_tasks EXCEPT ![<<s, path>>] = @ + 1]
  /\ selects' = selects + 1
  /\ UNCHANGED << config, run_tasks, disk, write_log, runs, probe >>

\* mutant: the clear drops the image and the preview but not the load state
UpdateClear_KeepsState(s) ==
  /\ Click
  /\ Receive
  /\ map' = [map EXCEPT ![s] = None]
  /\ image' = [Received.image EXCEPT ![s] = None]
  /\ texture' = [Received.texture EXCEPT ![s] = None]
  /\ load_state' = Received.load_state
  /\ processing_state' = PolledProcessingState
  /\ UNCHANGED << config, background, selects, runs, probe >>

\* "Clear": clear_height_map, clear_ao_map, clear_roughness_map
UpdateClear(s) ==
  /\ Click
  /\ Receive
  /\ map' = [map EXCEPT ![s] = None]
  /\ image' = [Received.image EXCEPT ![s] = None]
  /\ texture' = [Received.texture EXCEPT ![s] = None]
  /\ load_state' = [Received.load_state EXCEPT ![s] = NotLoaded]
  /\ processing_state' = PolledProcessingState
  /\ UNCHANGED << config, background, selects, runs, probe >>

ConfigClick ==
  /\ Click
  /\ Receive
  /\ load_state' = Received.load_state
  /\ image' = Received.image
  /\ texture' = Received.texture
  /\ processing_state' = PolledProcessingState
  /\ UNCHANGED << map, background, selects, runs, probe >>

\* "Select Output Directory" and a folder picked
UpdateSelectOutputDirectory(d) ==
  /\ ConfigClick
  /\ output_directory' = Some(d)
  /\ UNCHANGED << normal_map_format, roughness_format, output_format >>

UpdateSetNormalMapFormat(v) ==
  /\ ConfigClick
  /\ normal_map_format' = v
  /\ UNCHANGED << roughness_format, output_format, output_directory >>

UpdateSetRoughnessFormat(v) ==
  /\ ConfigClick
  /\ roughness_format' = v
  /\ UNCHANGED << normal_map_format, output_format, output_directory >>

UpdateSetOutputFormat(v) ==
  /\ ConfigClick
  /\ output_format' = v
  /\ UNCHANGED << normal_map_format, roughness_format, output_directory >>

\* the values process_and_save_images clones for the thread (lines 251-259)
Captured(id, im) ==
  [id |-> id,
   output_dir |-> Unwrap(output_directory),
   albedo |-> Unwrap(im["albedo"]).original,
   height |-> IF IsSome(im["height"])
              THEN Some(Unwrap(im["height"]).original) ELSE None,
   normal |-> Unwrap(im["normal"]).original,
   ao |-> im["ao"],
   roughness |-> im["roughness"],
   roughness_format |-> roughness_format,
   normal_format |-> normal_map_format,
   output_format |-> output_format]

\* "Run" clicked while enabled: process_and_save_images up to thread::spawn
UpdateRun ==
  /\ Click
  /\ RunEnabled(Received.load_state, output_directory, PolledProcessingState)
  /\ Receive
  /\ load_state' = Received.load_state
  /\ image' = Received.image
  /\ texture' = Received.texture
  /\ processing_state' = Processing
  /\ run_tasks' = run_tasks \cup {Captured(runs + 1, Received.image)}
  /\ runs' = runs + 1
  /\ UNCHANGED << map, config, load_tasks, disk, write_log, selects, probe >>

-----------------------------------------------------------------------------
(* Background threads *)

\* a load thread finishes: image::open, process_image, tx.send
LoadThread(s, path) ==
  /\ load_tasks[<<s, path>>] > 0
  /\ load_tasks' = [load_tasks EXCEPT ![<<s, path>>] = @ - 1]
  /\ image_channel' = Append(image_channel, <<s, LoadThreadResult(path)>>)
  /\ UNCHANGED << map, load_state, image, texture, config, processing_state,
                  processing_channel, run_tasks, disk, write_log, selects, clicks,
                  runs, probe >>

RECURSIVE WriteAll(_, _)
WriteAll(d, ws) ==
  IF ws = <<>> THEN d
  ELSE WriteAll([d EXCEPT ![Head(ws).path] =
                   Some([format |-> Head(ws).format, buf |-> Head(ws).buf])],
                Tail(ws))

LogOf(ws) == [k \in DOMAIN ws |-> [run |-> ws[k].run, path |-> ws[k].path]]

\* mutant: the thread reads the configuration and the images of the moment it
\* finishes, not the ones it was given
RunThread_ReadsCurrent(t, albedoOk, normalOk) ==
  \E o \in {RunThreadOutcome(Captured(t.id, image), albedoOk, normalOk)} :
  /\ t \in run_tasks
  /\ run_tasks' = run_tasks \ {t}
  /\ disk' = WriteAll(disk, o.writes)
  /\ write_log' = write_log \o LogOf(o.writes)
  /\ processing_channel' =
       IF o.panicked THEN processing_channel
       ELSE Append(processing_channel, [result |-> o.result, run |-> t.id])
  /\ UNCHANGED << map, load_state, image, texture, config, processing_state,
                  image_channel, load_tasks, selects, clicks, runs, probe >>

\* the run thread finishes: composite, save, tx.send(result) - or it panics
RunThread(t, albedoOk, normalOk) ==
  \E o \in {RunThreadOutcome(t, albedoOk, normalOk)} :
  /\ t \in run_tasks
  /\ run_tasks' = run_tasks \ {t}
  /\ disk' = WriteAll(disk, o.writes)
  /\ write_log' = write_log \o LogOf(o.writes)
  /\ processing_channel' =
       IF o.panicked THEN processing_channel
       ELSE Append(processing_channel, [result |-> o.result, run |-> t.id])
  /\ UNCHANGED << map, load_state, image, texture, config, processing_state,
                  image_channel, load_tasks, selects, clicks, runs, probe >>

RunThreadStep ==
  \E t \in run_tasks, albedoOk \in BOOLEAN, normalOk \in BOOLEAN :
    RunThread(t, albedoOk, normalOk)

-----------------------------------------------------------------------------

Next ==
  \/ UpdateIdle
  \/ \E s \in Slots : \E path \in Pickable(s) : UpdateSelectMap(s, path)
  \/ \E s \in OptionalSlots : UpdateClear(s)
  \/ \E d \in Dirs : UpdateSelectOutputDirectory(d)
  \/ \E v \in NormalMapFormat : UpdateSetNormalMapFormat(v)
  \/ \E v \in RoughnessFormat : UpdateSetRoughnessFormat(v)
  \/ \E v \in OutputFormat : UpdateSetOutputFormat(v)
  \/ UpdateRun
  \/ \E s \in Slots, path \in Files : LoadThread(s, path)
  \/ RunThreadStep

Spec == Init /\ [][Next]_vars

-----------------------------------------------------------------------------
(* validate_image on its own: every width and height of ValidateDims *)

ValidateDims ==
  { 128 * k : k \in 0 .. MaxDimSteps }
    \cup {1, 2, 3, 200, 300, 511, 513, 600, 2048, 4096, 65536, 1073741823, 1073741824}

InitValidate ==
  /\ TerrainAppDefault
  /\ probe \in { [width |-> w, height |-> h, result |-> None] :
                   w \in ValidateDims, h \in ValidateDims }

Validate ==
  /\ probe.result = None
  /\ probe' = [probe EXCEPT !.result =
                 Some(validate_image([width |-> probe.width, height |-> probe.height]))]
  /\ UNCHANGED << map, load_state, image, texture, config, processing_state,
                  image_channel, processing_channel, background, selects, clicks,
                  runs >>

NextValidate == Validate

SpecValidate == InitValidate /\ [][NextValidate]_vars

-----------------------------------------------------------------------------
(* One run on its own: started from every state in which "Run" has just    *)
(* been clicked with validated images in the slots; the run thread takes   *)
(* its step and the frames that follow receive its result                  *)

ValidFiles == {"a512.png", "b1024.png"}

LoadedImage(f) == Some(LoadThreadResult(f)[2])

\* which file each slot holds (NoFile: the slot was never loaded)
NoFile == "-"
Holdings ==
  { h \in [Slots -> ValidFiles \cup {NoFile}] :
      h["albedo"] # NoFile /\ h["normal"] # NoFile }

InitRun ==
  \E h \in Holdings :
    LET im == [s \in Slots |-> IF h[s] = NoFile THEN None ELSE LoadedImage(h[s])]
    IN
    /\ map = [s \in Slots |-> IF h[s] = NoFile THEN None ELSE Some(h[s])]
    /\ load_state = [s \in Slots |-> IF h[s] = NoFile THEN NotLoaded ELSE Loaded]
    /\ image = im
    /\ texture = [s \in Slots |-> IF h[s] = NoFile THEN None
                                  ELSE Some(process_image_to_texture(Unwrap(im[s])))]
    /\ normal_map_format \in NormalMapFormat
    /\ roughness_format \in RoughnessFormat
    /\ output_format \in OutputFormat
    /\ output_directory = Some("out1")
    /\ processing_state = Processing
    /\ image_channel = <<>>
    /\ processing_channel = <<>>
    /\ load_tasks = [t \in Slots \X Files |-> 0]
    /\ run_tasks = {Captured(1, im)}
    /\ disk = [p \in OutPaths |-> None]
    /\ write_log = <<>>
    /\ selects = Cardinality({s \in Slots : h[s] # NoFile})
    /\ clicks = selects + 2
    /\ runs = 1
    /\ probe = <<>>

NextRun ==
  \/ RunThreadStep
  \/ UpdateIdle

SpecRun == InitRun /\ [][NextRun]_vars

\* the frames keep coming, and the spawned thread gets to run
FairSpecRun ==
  /\ SpecRun
  /\ WF_vars(UpdateIdle)
  /\ WF_vars(RunThreadStep)

-----------------------------------------------------------------------------
(* The AO pass: one run on its own as in SpecRun, and the pass's closure on  *)
(* its own, applied to a pixel and an AO luminance of every value            *)

AoInputs ==
  { [pixel |-> << c, (7 * c + 3) % 256, ChannelMax - c, (c + a) % 256 >>,
     ao |-> a, result |-> None] :
    c \in 0 .. ChannelMax, a \in 0 .. ChannelMax }

InitAo ==
  \/ InitRun
  \/ TerrainAppDefault /\ probe \in AoInputs

ApplyAoPixel ==
  /\ probe # <<>>
  /\ probe.result = None
  /\ probe' = [probe EXCEPT !.result = Some(AoPixel(probe.pixel, probe.ao))]
  /\ UNCHANGED << map, load_state, image, texture, config, processing_state,
                  image_channel, processing_channel, background, selects, clicks,
                  runs >>

NextAo ==
  \/ RunThreadStep
  \/ UpdateIdle
  \/ ApplyAoPixel

SpecAo == InitAo /\ [][NextAo]_vars

-----------------------------------------------------------------------------
(* The DirectX pass: one run on its own as in SpecRun, and the pass's        *)
(* closure on its own, applied once and once more to a pixel of every green  *)
(* value                                                                     *)

DirectXInputs ==
  { [pixel |-> << (g + 246) % 256, g, (g + 10) % 256, ChannelMax - g >>,
     cur |-> << (g + 246) % 256, g, (g + 10) % 256, ChannelMax - g >>,
     applied |-> 0] :
    g \in 0 .. ChannelMax }

InitDirectX ==
  \/ InitRun
  \/ TerrainAppDefault /\ probe \in DirectXInputs

ApplyDirectXPixel ==
  /\ probe # <<>>
  /\ probe.applied < 2
  /\ probe' = [probe EXCEPT !.cur = DirectXPixel(probe.cur),
                            !.applied = probe.applied + 1]
  /\ UNCHANGED << map, load_state, image, texture, config, processing_state,
                  image_channel, processing_channel, background, selects, clicks,
                  runs >>

NextDirectX ==
  \/ RunThreadStep
  \/ UpdateIdle
  \/ ApplyDirectXPixel

SpecDirectX == InitDirectX /\ [][NextDirectX]_vars

-----------------------------------------------------------------------------
(* process_image on its own: a decoded image of every width and height of    *)
(* ValidateDims; the preview it yields can be reduced once more              *)

ProcessInputs ==
  { [img |-> [width |-> w, height |-> h, file |-> f], result |-> None, again |-> None] :
    w \in ValidateDims, h \in ValidateDims, f \in {"a512.png", "b1024.png"} }

InitProcess == TerrainAppDefault /\ probe \in ProcessInputs

Process ==
  /\ probe.result = None
  /\ probe' = [probe EXCEPT !.result = Some(process_image(probe.img))]
  /\ UNCHANGED << map, load_state, image, texture, config, processing_state,
                  image_channel, processing_channel, background, selects, clicks,
                  runs >>

\* the same reduction applied to the preview of a processed image
ReduceAgain ==
  /\ probe.result # None
  /\ IsOk(Unwrap(probe.result))
  /\ probe.again = None
  /\ probe' = [probe EXCEPT !.again =
                 Some(ResizeExact(Unwrap(probe.result)[2].downscaled,
                                  PreviewSize, PreviewSize))]
  /\ UNCHANGED << map, load_state, image, texture, config, processing_state,
                  image_channel, processing_channel, background, selects, clicks,
                  runs >>

NextProcess ==
  \/ Process
  \/ ReduceAgain

SpecProcess == InitProcess /\ [][NextProcess]_vars

-----------------------------------------------------------------------------
(* A session that goes on from the point where the Albedo and the Normal     *)
(* map are loaded (a 512 and a 1024 image) and the output directory is       *)
(* chosen: the optional maps are selected, reselected and cleared, and runs  *)
(* are started. selects and clicks count what happens from that point on.    *)

InitLoaded ==
  \E fa \in {"a512.png"}, fn \in {"b1024.png"} :
    LET h == [s \in Slots |-> IF s = "albedo" THEN fa
                              ELSE IF s = "normal" THEN fn ELSE NoFile]
        im == [s \in Slots |-> IF h[s] = NoFile THEN None ELSE LoadedImage(h[s])]
    IN
    /\ map = [s \in Slots |-> IF h[s] = NoFile THEN None ELSE Some(h[s])]
    /\ load_state = [s \in Slots |-> IF h[s] = NoFile THEN NotLoaded ELSE Loaded]
    /\ image = im
    /\ texture = [s \in Slots |-> IF h[s] = NoFile THEN None
                                  ELSE Some(process_image_to_texture(Unwrap(im[s])))]
    /\ normal_map_format = "OpenGL"
    /\ roughness_format = "Roughness"
    /\ output_format = "PNG"
    /\ output_directory = Some("out1")
    /\ processing_state = NotStarted
    /\ image_channel = <<>>
    /\ processing_channel = <<>>
    /\ load_tasks = [t \in Slots \X Files |-> 0]
    /\ run_tasks = {}
    /\ disk = [p \in OutPaths |-> None]
    /\ write_log = <<>>
    /\ selects = 0
    /\ clicks = 0
    /\ runs = 0
    /\ probe = <<>>

NextLoaded ==
  \/ UpdateIdle
  \/ \E s \in OptionalSlots : \E path \in Pickable(s) : UpdateSelectMap(s, path)
  \/ \E s \in OptionalSlots : UpdateClear(s)
  \/ UpdateRun
  \/ \E s \in OptionalSlots, path \in Files : LoadThread(s, path)
  \/ RunThreadStep

SpecLoaded == InitLoaded /\ [][NextLoaded]_vars

-----------------------------------------------------------------------------
(* One parallel pass on its own: rayon hands every element of the pixel      *)
(* vector to the pass's closure exactly once, in no particular order and     *)
(* possibly concurrently; each unit of work holds the only &mut to its pixel *)
(* and the contributor is shared read-only, so a unit of work is one atomic  *)
(* step. A contributor smaller than the buffer is left out: the pass panics. *)

PassKinds == {"ao", "height", "opaque", "directx", "roughness", "default_smoothness"}

PassInputs ==
  { p \in { [pass |-> k, fmt |-> fmt, contributor |-> DynImage(c),
             start |-> ToRgba8(DynImage(f)), buf |-> ToRgba8(DynImage(f)),
             done |-> {}] :
           k \in PassKinds, fmt \in RoughnessFormat,
           f \in ValidFiles, c \in ValidFiles } :
      ~PassPanics(p.start, p.contributor) }

InitPass == TerrainAppDefault /\ probe \in PassInputs

\* mutant: the unit of work for pixel i reads the alpha that pixel 0 has now
PassPixel_ReadsPixel0(p, i) ==
  LET x == i % p.buf.width
      y == i \div p.buf.width
      pixel == << p.buf.px[i][1], p.buf.px[i][2], p.buf.px[i][3], p.buf.px[0][4] >>
  IN CASE p.pass = "ao" -> AoPixel(pixel, LumaPixel(p.contributor, x, y))
       [] p.pass = "height" -> HeightPixel(pixel, LumaPixel(p.contributor, x, y))
       [] p.pass = "opaque" -> OpaquePixel(pixel)
       [] p.pass = "directx" -> DirectXPixel(pixel)
       [] p.pass = "roughness" ->
            RoughnessPixel(pixel, LumaPixel(p.contributor, x, y), p.fmt)
       [] p.pass = "default_smoothness" -> DefaultSmoothnessPixel(pixel)

\* the closure of the pass, called with (i, pixel)
PassPixel(p, i) ==
  LET x == i % p.buf.width
      y == i \div p.buf.width
      pixel == p.buf.px[i]
  IN CASE p.pass = "ao" -> AoPixel(pixel, LumaPixel(p.contributor, x, y))
       [] p.pass = "height" -> HeightPixel(pixel, LumaPixel(p.contributor, x, y))
       [] p.pass = "opaque" -> OpaquePixel(pixel)
       [] p.pass = "directx" -> DirectXPixel(pixel)
       [] p.pass = "roughness" ->
            RoughnessPixel(pixel, LumaPixel(p.contributor, x, y), p.fmt)
       [] p.pass = "default_smoothness" -> DefaultSmoothnessPixel(pixel)

\* one unit of work: pixel i, not yet processed, is rewritten
ProcessPixel(i) ==
  /\ i \notin probe.done
  /\ probe' = [probe EXCEPT !.buf.px[i] = PassPixel(probe, i),
                            !.done = probe.done \cup {i}]
  /\ UNCHANGED << map, load_state, image, texture, config, processing_state,
                  image_channel, processing_channel, background, selects, clicks,
                  runs >>

NextPass == \E i \in DOMAIN probe.buf.px : ProcessPixel(i)

SpecPass == InitPass /\ [][NextPass]_vars

-----------------------------------------------------------------------------
(* Loading on its own: maps are selected and cleared, the load threads run,  *)
(* the frames receive. Every spawned load thread gets to finish and the      *)
(* frames keep coming.                                                       *)

\* some running load thread finishes
LoadThreadStep == \E s \in Slots, path \in Files : LoadThread(s, path)

NextLoads ==
  \/ UpdateIdle
  \/ \E s \in Slots : \E path \in Pickable(s) : UpdateSelectMap(s, path)
  \/ \E s \in OptionalSlots : UpdateClear(s)
  \/ LoadThreadStep

SpecLoads == Init /\ [][NextLoads]_vars

FairSpecLoads ==
  /\ SpecLoads
  /\ WF_vars(UpdateIdle)
  /\ WF_vars(LoadThreadStep)

-----------------------------------------------------------------------------
(* A run in flight, as in SpecRun, while the session goes on: results are    *)
(* delivered, maps are selected and cleared, the configuration and the       *)
(* output directory are changed, and further runs are started, as far as     *)
(* the session's clicks allow                                                *)

NextSnapshot ==
  \/ RunThreadStep
  \/ UpdateIdle
  \/ \E s \in Slots : \E path \in Pickable(s) : UpdateSelectMap(s, path)
  \/ \E s \in OptionalSlots : UpdateClear(s)
  \/ \E d \in Dirs : UpdateSelectOutputDirectory(d)
  \/ \E v \in NormalMapFormat : UpdateSetNormalMapFormat(v)
  \/ \E v \in RoughnessFormat : UpdateSetRoughnessFormat(v)
  \/ \E v \in OutputFormat : UpdateSetOutputFormat(v)
  \/ UpdateRun
  \/ LoadThreadStep

SpecSnapshot == InitRun /\ [][NextSnapshot]_vars

-----------------------------------------------------------------------------
(* Properties *)

IsLoadError(st) == st[1] = "Error"
RunStarts == runs' = runs + 1

\* C1: Run gating. A run starts in a frame only if, once that frame has
\* received, the Albedo and Normal slots are Loaded, an output directory is set
\* and the processing state is not Processing (it was not Processing when the
\* frame began, or the frame received the result of the run in progress).
RunGating ==
  [][RunStarts =>
       /\ load_state'["albedo"] = Loaded
       /\ load_state'["normal"] = Loaded
       /\ output_directory' # None
       /\ (processing_state # Processing \/ processing_channel # <<>>)]_vars

RunGatingWitness ==
  /\ runs = 1
  /\ processing_state = Processing
  /\ load_state["albedo"] = Loaded
  /\ load_state["normal"] = Loaded

\* C2: No load/run race. Whenever a run starts, no load thread for the Albedo
\* or the Normal slot is running and no result for either is queued.
RequiredLoadOutstanding(tasks, ch) ==
  \/ \E s \in RequiredSlots, f \in Files : tasks[<<s, f>>] > 0
  \/ \E k \in DOMAIN ch : ch[k][1] \in RequiredSlots

NoLoadRunRace ==
  [][RunStarts => ~RequiredLoadOutstanding(load_tasks', image_channel')]_vars

\* C3: Per-slot state machine. A slot whose state changes to Loaded or to
\* Error(message) in a step was Loading before the step.
SlotEntersFromLoading ==
  [][\A s \in Slots :
       (load_state'[s] # load_state[s]
          /\ (load_state'[s] = Loaded \/ IsLoadError(load_state'[s])))
       => load_state[s] = Loading]_vars

\* C4: Run state machine. The processing state starts at NotStarted; it changes
\* only from a state other than Processing to Processing, by a run starting,
\* or from Processing to Done or Error(message), by receiving the result of
\* the latest run; it never changes back to NotStarted.
RunStateMachine ==
  /\ processing_state = NotStarted
  /\ [][processing_state' # processing_state =>
          \/ /\ processing_state # Processing
             /\ processing_state' = Processing
             /\ RunStarts
          \/ /\ processing_state = Processing
             /\ processing_channel # <<>>
             /\ Head(processing_channel).run = runs
             /\ IF IsOk(Head(processing_channel).result)
                THEN processing_state' = Done
                ELSE processing_state' =
                       ProcessingError(Head(processing_channel).result[2])]_vars

RunStateMachineWitness ==
  /\ runs = 2
  /\ processing_state = Done
  /\ Len(write_log) = 3

\* C5: Every run that enters Processing eventually reaches Done or
\* Error(message), whatever validated images were loaded.
RunTerminates ==
  (processing_state = Processing) ~> (processing_state # Processing)

\* C6: Clearing is durable. An optional slot that shows no path (it was cleared,
\* or never selected, and no path was selected since) is NotLoaded and holds
\* neither an image nor a preview.
ClearIsDurable ==
  \A s \in OptionalSlots :
    map[s] = None =>
      load_state[s] = NotLoaded /\ image[s] = None /\ texture[s] = None

\* C7: validate_image returns Ok exactly for square power-of-two images of side
\* at least 512, and otherwise the first violated rule in the order NotSquare,
\* NotPowerOfTwo, TooSmall.
IsPowerOfTwoValue(n) == \E k \in 0 .. 30 : n = 2 ^ k

ExpectedValidation(w, h) ==
  IF w # h THEN Err("NotSquare")
  ELSE IF ~IsPowerOfTwoValue(w) THEN Err("NotPowerOfTwo")
  ELSE IF w < 512 THEN Err("TooSmall")
  ELSE Ok(<<>>)

ValidateContract ==
  probe.result # None =>
    /\ Unwrap(probe.result) = ExpectedValidation(probe.width, probe.height)
    /\ IsOk(Unwrap(probe.result)) <=>
         (probe.width = probe.height /\ IsPowerOfTwoValue(probe.width)
            /\ probe.width >= 512)

ValidateContractWitness ==
  /\ probe.width = 0
  /\ probe.height = 0
  /\ probe.result = Some(Err("NotPowerOfTwo"))

\* C8: Every full-resolution image held in a slot, and every image captured by
\* a run thread, is square with a power-of-two side of at least 512.
PassedValidation(img) ==
  img.width = img.height /\ IsPowerOfTwoValue(img.width) /\ img.width >= 512

CapturedImages(t) ==
  {t.albedo, t.normal}
    \cup (IF IsSome(t.height) THEN {Unwrap(t.height)} ELSE {})
    \cup (IF IsSome(t.ao) THEN {Unwrap(t.ao).original} ELSE {})
    \cup (IF IsSome(t.roughness) THEN {Unwrap(t.roughness).original} ELSE {})

StoredImagesValidated ==
  /\ \A s \in Slots :
       IsSome(image[s]) => PassedValidation(Unwrap(image[s]).original)
  /\ \A t \in run_tasks : \A img \in CapturedImages(t) : PassedValidation(img)

StoredImagesValidatedWitness ==
  /\ load_state["albedo"] = Loaded
  /\ IsSome(image["albedo"])
  /\ load_state["normal"] = LoadError("Format error decoding Png")
  /\ image["normal"] = None
  /\ load_state["height"] = LoadError("Image must be at least 512x512")
  /\ image["height"] = None

\* the image crate's luma of the pixel at (x, y) of a stored image
ExpectedLuma(processed, x, y) ==
  LET p == FilePixel(processed.original.file, x, y)
  IN (2126 * p[1] + 7152 * p[2] + 722 * p[3]) \div 10000

AlbedoFiles == { p \in OutPaths : p[2] \in {"albedo.png", "albedo.dds"} }
NormalFiles == { p \in OutPaths : p[2] \in {"normal.png", "normal.dds"} }

\* C9: Packed-albedo alpha. Every pixel of a written albedo file has alpha equal
\* to the Height map's luminance at that pixel's coordinates when a Height
\* image is present, and 255 when none is - whatever the Albedo source's alpha
\* and the AO map are.
AlbedoAlpha ==
  \A p \in AlbedoFiles :
    IsSome(disk[p]) =>
      LET buf == Unwrap(disk[p]).buf IN
      \A i \in DOMAIN buf.px :
        buf.px[i][4] =
          IF IsSome(image["height"])
          THEN ExpectedLuma(Unwrap(image["height"]), i % buf.width, i \div buf.width)
          ELSE 255

AlbedoAlphaWitness ==
  /\ \E p \in AlbedoFiles : IsSome(disk[p])
  /\ IsSome(image["ao"])
  /\ IsSome(image["height"])
  /\ Unwrap(image["height"]).original.width > Unwrap(image["albedo"]).original.width

AoMultiplyContract ==
  /\ (probe # <<>> /\ probe.result # None) =>
       LET o == Unwrap(probe.result) IN
       /\ \A k \in 1 .. 3 : o[k] = (probe.pixel[k] * probe.ao) \div 255
       /\ o[4] = probe.pixel[4]
       /\ probe.ao = 255 => \A k \in 1 .. 3 : o[k] = probe.pixel[k]
       /\ probe.ao = 0 => \A k \in 1 .. 3 : o[k] = 0
  /\ \A p \in AlbedoFiles :
       IsSome(disk[p]) =>
         LET buf == Unwrap(disk[p]).buf IN
         \A i \in DOMAIN buf.px : \A k \in 1 .. 3 :
           LET x == i % buf.width
               y == i \div buf.width
               src == FilePixel(Unwrap(image["albedo"]).original.file, x, y)
           IN buf.px[i][k] =
                IF IsSome(image["ao"])
                THEN (src[k] * ExpectedLuma(Unwrap(image["ao"]), x, y)) \div 255
                ELSE src[k]

AoMultiplyContractWitness ==
  /\ probe # <<>>
  /\ probe.ao = 128
  /\ probe.pixel[1] = 200
  /\ probe.result # None
  /\ Unwrap(probe.result)[1] = 100

\* C12: Normal green-channel policy. With the DirectX encoding every pixel of
\* the written normal file has G = 255 - G_source and R, B of the source; with
\* OpenGL R, G, B are the source's; the DirectX transform applied twice gives
\* back the original pixel.
GreenChannelPolicy ==
  /\ probe # <<>> =>
       /\ probe.applied = 1 =>
            probe.cur = << probe.pixel[1], 255 - probe.pixel[2],
                           probe.pixel[3], probe.pixel[4] >>
       /\ probe.applied = 2 => probe.cur = probe.pixel
  /\ \A p \in NormalFiles :
       IsSome(disk[p]) =>
         LET buf == Unwrap(disk[p]).buf IN
         \A i \in DOMAIN buf.px :
           LET src == FilePixel(Unwrap(image["normal"]).original.file,
                                i % buf.width, i \div buf.width)
           IN /\ buf.px[i][1] = src[1]
              /\ buf.px[i][3] = src[3]
              /\ buf.px[i][2] = IF normal_map_format = "DirectX"
                                THEN 255 - src[2] ELSE src[2]

GreenChannelPolicyWitness ==
  /\ normal_map_format = "DirectX"
  /\ \E p \in NormalFiles :
       /\ IsSome(disk[p])
       /\ \E i \in DOMAIN Unwrap(disk[p]).buf.px :
            Unwrap(disk[p]).buf.px[i][2] = 235

\* the names the two files of a run have, by output format
AlbedoFileOf(fmt) == IF fmt = "PNG" THEN "albedo.png" ELSE "albedo.dds"
NormalFileOf(fmt) == IF fmt = "PNG" THEN "normal.png" ELSE "normal.dds"

\* C13: Write failure aborts the rest of the run. When the run thread gets to
\* its writes and the albedo write fails, it writes nothing and reports an
\* error; when the albedo write succeeds and the normal write fails, it reports
\* an error, the albedo file it wrote stays and the normal file is not
\* written - for PNG and for DDS.
WriteFailureAborts ==
  [][\A t \in run_tasks : \A albedoOk \in BOOLEAN, normalOk \in BOOLEAN :
       (RunThread(t, albedoOk, normalOk) /\ processing_channel' # processing_channel)
       =>
       LET sent == processing_channel'[Len(processing_channel')]
           ap == <<t.output_dir, AlbedoFileOf(t.output_format)>>
           np == <<t.output_dir, NormalFileOf(t.output_format)>>
       IN /\ ~albedoOk =>
               /\ ~IsOk(sent.result)
               /\ disk' = disk
               /\ write_log' = write_log
          /\ (albedoOk /\ ~normalOk) =>
               /\ ~IsOk(sent.result)
               /\ IsSome(disk'[ap])
               /\ \A q \in OutPaths \ {ap} : disk'[q] = disk[q]
               /\ write_log' = Append(write_log, [run |-> t.id, path |-> ap])]_vars

WriteFailureAbortsWitness ==
  /\ IsLoadError(processing_state)
  /\ output_format = "DDS"
  /\ IsSome(disk[<<"out1", "albedo.dds">>])
  /\ disk[<<"out1", "normal.dds">>] = None

\* the writes of the latest run, in order
WritesOfLatestRun ==
  LET Mine(w) == w.run = runs IN SelectSeq(write_log, Mine)

\* C14: A run reaches Done only if it wrote exactly two files, first
\* albedo.<ext> and then normal.<ext>, <ext> being png or dds by the output
\* format, and the directory the output directory, that were set when the run
\* was initiated.
\*   - the thread spawned by a run start holds the directory and the format of
\*     that moment;
\*   - a thread that sends Ok has written exactly those two files, in that order;
\*   - while the state is Done, the writes of the latest run are two, an albedo
\*     and then a normal file of the same directory and extension.
DoneMeansTwoFiles ==
  /\ [](processing_state = Done =>
          /\ Len(WritesOfLatestRun) = 2
          /\ \E d \in Dirs :
               \/ /\ WritesOfLatestRun[1].path = <<d, "albedo.png">>
                  /\ WritesOfLatestRun[2].path = <<d, "normal.png">>
               \/ /\ WritesOfLatestRun[1].path = <<d, "albedo.dds">>
                  /\ WritesOfLatestRun[2].path = <<d, "normal.dds">>)
  /\ [][\A t \in run_tasks' \ run_tasks :
          /\ t.id = runs'
          /\ Some(t.output_dir) = output_directory
          /\ t.output_format = output_format]_vars
  /\ [][\A t \in run_tasks \ run_tasks' :
          (/\ processing_channel' # processing_channel
           /\ IsOk(processing_channel'[Len(processing_channel')].result))
          => write_log' = write_log \o
               << [run |-> t.id,
                   path |-> <<t.output_dir, AlbedoFileOf(t.output_format)>>],
                  [run |-> t.id,
                   path |-> <<t.output_dir, NormalFileOf(t.output_format)>>] >>]_vars

DoneMeansTwoFilesWitness ==
  /\ processing_state = Done
  /\ output_format = "DDS"
  /\ Len(write_log) = 2
  /\ write_log[1].path[2] = "albedo.png"
  /\ write_log[2].path[2] = "normal.png"

\* the results queued for slot s, in order
QueuedFor(s) ==
  LET Mine(m) == m[1] = s IN SelectSeq(image_channel, Mine)

\* a frame without a click that delivers the queued load results
Delivers == image_channel # <<>> /\ image_channel' = <<>> /\ clicks' = clicks

\* C15: Slot errors are local. A frame that delivers failed load results
\* changes, of a slot they are for, only the load state (to Error with the
\* message of the last one); it changes nothing of a slot no result is for,
\* nor the configuration, nor the running threads, nor - unless a run's result
\* arrives in the same frame - the processing state.
SlotErrorsAreLocal ==
  [][Delivers =>
       /\ \A s \in Slots :
            LET q == QueuedFor(s) IN
            /\ q = <<>> =>
                 /\ load_state'[s] = load_state[s]
                 /\ image'[s] = image[s]
                 /\ texture'[s] = texture[s]
            /\ (q # <<>> /\ \A k \in DOMAIN q : ~IsOk(q[k][2])) =>
                 /\ load_state'[s] = <<"Error", q[Len(q)][2][2]>>
                 /\ image'[s] = image[s]
                 /\ texture'[s] = texture[s]
       /\ map' = map
       /\ config' = config
       /\ load_tasks' = load_tasks
       /\ run_tasks' = run_tasks
       /\ processing_channel = <<>> => processing_state' = processing_state]_vars

SlotErrorsAreLocalWitness ==
  /\ load_state["albedo"] = Loaded
  /\ load_state["ao"] = <<"Error", "Image must be at least 512x512">>
  /\ IsSome(image["ao"])
  /\ IsSome(texture["ao"])

\* the load results not delivered yet: queued, or about to be sent by a
\* running load thread
PendingResults ==
  { image_channel[k] : k \in DOMAIN image_channel }
    \cup { <<t[1], LoadThreadResult(t[2])>> : t \in { u \in Slots \X Files : load_tasks[u] > 0 } }

SlotView(st) ==
  [load_state |-> st.load_state, image |-> st.image, texture |-> st.texture,
   run_enabled |-> RunEnabled(st.load_state, output_directory, processing_state)]

CurrentSlots == [load_state |-> load_state, image |-> image, texture |-> texture]

\* C16: Load completions for distinct slots commute. For any two pending load
\* results of different slots, delivering them in one frame in either order,
\* or in two frames in either order, gives the same load states, images,
\* previews and run-enabled status.
LoadCompletionsCommute ==
  \A m1 \in PendingResults, m2 \in PendingResults :
    m1[1] # m2[1] =>
      LET both == SlotView(DrainImages(CurrentSlots, <<m1, m2>>))
      IN /\ SlotView(DrainImages(CurrentSlots, <<m2, m1>>)) = both
         /\ SlotView(DrainImages(DrainImages(CurrentSlots, <<m1>>), <<m2>>)) = both
         /\ SlotView(DrainImages(DrainImages(CurrentSlots, <<m2>>), <<m1>>)) = both
         /\ both.load_state[m1[1]] =
              (IF IsOk(m1[2]) THEN <<"Loaded">> ELSE <<"Error", m1[2][2]>>)
         /\ both.load_state[m2[1]] =
              (IF IsOk(m2[2]) THEN <<"Loaded">> ELSE <<"Error", m2[2][2]>>)

LoadCompletionsCommuteWitness ==
  /\ Len(image_channel) = 1
  /\ image_channel[1][1] = "normal"
  /\ IsOk(image_channel[1][2])
  /\ load_tasks[<<"albedo", "bad.png">>] = 1
  /\ load_state["ao"] = Loaded

\* C17: For every image that passes validation process_image yields a preview
\* of exactly 512x512 whatever the input side, reducing that preview again
\* yields 512x512, and the original stored with it is the decoded image, with
\* its dimensions and pixels.
PreviewContract ==
  probe.result # None =>
    LET r == Unwrap(probe.result) IN
    /\ PassedValidation(probe.img) <=> IsOk(r)
    /\ IsOk(r) =>
         /\ r[2].downscaled.width = 512
         /\ r[2].downscaled.height = 512
         /\ r[2].original = probe.img
         /\ probe.again # None =>
              /\ Unwrap(probe.again).width = 512
              /\ Unwrap(probe.again).height = 512

PreviewContractWitness ==
  /\ probe.img.width = 2048
  /\ probe.result # None
  /\ IsOk(Unwrap(probe.result))
  /\ probe.again # None

\* the image a run thread holds for an optional slot, if any
CapturedFor(t, s) ==
  CASE s = "height" -> t.height
    [] s = "ao" -> t.ao
    [] s = "roughness" -> t.roughness

\* C18: A run composites an optional input only if that slot's state is Loaded
\* at the moment the run is initiated: the thread a run start spawns holds an
\* image for an optional slot only if the slot is Loaded.
CompositesOnlyLoaded ==
  [][\A t \in run_tasks' \ run_tasks : \A s \in OptionalSlots :
       IsSome(CapturedFor(t, s)) => load_state'[s] = Loaded]_vars

\* no load of slot s is still to be delivered
NothingOutstanding(s) ==
  /\ \A f \in Files : load_tasks[<<s, f>>] = 0
  /\ \A k \in DOMAIN image_channel : image_channel[k][1] # s

\* C19: Superseding load wins. Once every load of a slot has been delivered,
\* the slot's load state and stored image are those of the path the slot
\* displays (the latest selection): Loaded with that file's image, or Error
\* with that file's message - whichever background thread finished first.
SupersedingLoadWins ==
  \A s \in Slots :
    (IsSome(map[s]) /\ NothingOutstanding(s)) =>
      LET r == LoadThreadResult(Unwrap(map[s])) IN
      IF IsOk(r)
      THEN load_state[s] = <<"Loaded">> /\ image[s] = Some(r[2])
      ELSE load_state[s] = <<"Error", r[2]>>

\* the luma of the pixel at raw row-major offset i of a stored image's own buffer
LumaAtOffset(processed, i) ==
  ExpectedLuma(processed, i % processed.original.width,
               i \div processed.original.width)

\* C20: Contributor indexing is by raw pixel offset. The pixel at offset i of a
\* written file took its AO / Height / Roughness value from the pixel at raw
\* offset i of the contributor's own buffer, also when the contributor's width
\* differs from the primary image's.
RawOffsetIndexing ==
  /\ \A p \in AlbedoFiles :
       IsSome(disk[p]) =>
         LET buf == Unwrap(disk[p]).buf IN
         \A i \in DOMAIN buf.px :
           /\ IsSome(image["height"]) =>
                buf.px[i][4] = LumaAtOffset(Unwrap(image["height"]), i)
           /\ IsSome(image["ao"]) =>
                LET src == FilePixel(Unwrap(image["albedo"]).original.file,
                                     i % buf.width, i \div buf.width)
                IN \A k \in 1 .. 3 :
                     buf.px[i][k] =
                       (src[k] * LumaAtOffset(Unwrap(image["ao"]), i)) \div 255
  /\ \A p \in NormalFiles :
       IsSome(disk[p]) =>
         LET buf == Unwrap(disk[p]).buf IN
         \A i \in DOMAIN buf.px :
           IsSome(image["roughness"]) =>
             buf.px[i][4] =
               (IF roughness_format = "Roughness"
                THEN LumaAtOffset(Unwrap(image["roughness"]), i)
                ELSE 255 - LumaAtOffset(Unwrap(image["roughness"]), i))

\* the pass applied to the whole buffer at once
WholePass(p) ==
  CASE p.pass = "ao" -> AoPass(p.start, p.contributor)
    [] p.pass = "height" -> HeightPass(p.start, p.contributor)
    [] p.pass = "opaque" -> OpaquePass(p.start)
    [] p.pass = "directx" -> DirectXPass(p.start)
    [] p.pass = "roughness" -> RoughnessPass(p.start, p.contributor, p.fmt)
    [] p.pass = "default_smoothness" -> DefaultSmoothnessPass(p.start)

\* C21: Per-pixel independence. In every pass, in whatever order the pixels
\* have been processed so far, a processed pixel has the value the pass gives
\* it from its own starting value and the contributor's pixel at the same
\* position, and an unprocessed pixel still has its starting value; so the
\* finished buffer is the same for every order.
PerPixelIndependence ==
  /\ \A i \in DOMAIN probe.buf.px :
       probe.buf.px[i] =
         IF i \in probe.done THEN WholePass(probe).px[i] ELSE probe.start.px[i]
  /\ probe.done = DOMAIN probe.buf.px => probe.buf = WholePass(probe)

PerPixelIndependenceWitness ==
  /\ probe.pass = "ao"
  /\ probe.done = DOMAIN probe.buf.px
  /\ probe.contributor.width > probe.buf.width
  /\ probe.buf # probe.start

\* a step of update(), as opposed to a step of a background thread
IsFrame ==
  /\ \A t \in Slots \X Files : load_tasks'[t] >= load_tasks[t]
  /\ run_tasks \subseteq run_tasks'

\* C22: Every slot that enters Loading eventually leaves it (to Loaded, Error
\* or NotLoaded), given that every load thread finishes and the frames keep
\* coming - that is, at every moment the slot is, then or later, not Loading;
\* and every frame empties the load channel, applying to each slot that is not
\* selected or cleared in that frame the last result queued for it.
LoadingEnds ==
  /\ \A s \in Slots : []<>(load_state[s] # <<"Loading">>)
  /\ [][IsFrame =>
          /\ image_channel' = <<>>
          /\ (selects' = selects /\ ~(\E c \in OptionalSlots : UpdateClear(c))) =>
               \A s \in Slots :
                 LET q == QueuedFor(s) IN
                 q # <<>> =>
                   IF IsOk(q[Len(q)][2])
                   THEN /\ load_state'[s] = <<"Loaded">>
                        /\ image'[s] = Some(q[Len(q)][2][2])
                        /\ texture'[s] # None
                   ELSE load_state'[s] = <<"Error", q[Len(q)][2][2]>>]_vars

LoadingEndsWitness ==
  /\ selects = 3
  /\ load_state["albedo"] = <<"Loaded">>
  /\ load_state["normal"] = <<"Error", "Format error decoding Png">>
  /\ load_state["height"] = <<"NotLoaded">>
  /\ \A t \in Slots \X Files : load_tasks[t] = 0
  /\ image_channel = <<>>

\* C23: Whenever a slot's load state is Loaded, the slot holds a
\* full-resolution image and a preview; and whenever the Run button of a frame
\* is enabled (after the frame has received), the Albedo image, the Normal
\* image and the output directory are present, so that the unwraps of
\* process_and_save_images do not fail.
LoadedHoldsImage ==
  /\ \A s \in Slots :
       load_state[s] = <<"Loaded">> => image[s] # <<>> /\ texture[s] # <<>>
  /\ \A s \in Slots :
       Received.load_state[s] = <<"Loaded">> =>
         Received.image[s] # <<>> /\ Received.texture[s] # <<>>
  /\ RunEnabled(Received.load_state, output_directory, PolledProcessingState) =>
       /\ Received.image["albedo"] # <<>>
       /\ Received.image["normal"] # <<>>
       /\ output_directory # <<>>

LoadedHoldsImageWitness ==
  /\ RunEnabled(Received.load_state, output_directory, PolledProcessingState)
  /\ runs = 1
  /\ processing_state = <<"Done">>
  /\ load_state["height"] = <<"NotLoaded">>
  /\ selects = 3

\* what a file written by thread t holds: the format and the composited buffer
WrittenBy(t, pipeline) == Some([format |-> t.output_format, buf |-> pipeline[2]])

\* C24: A run works on a snapshot taken at initiation.
\*   - the thread a run start spawns holds the images of the five slots, the
\*     two encodings, the output format and the output directory of that frame;
\*   - a running thread stays as it is until it finishes, whatever is
\*     delivered, cleared, selected or reconfigured meanwhile;
\*   - the files a finishing thread writes are composited from the images and
\*     encodings it holds and go to the directory and under the names of the
\*     format it holds.
RunUsesSnapshot ==
  /\ [][\A t \in run_tasks' \ run_tasks :
          /\ t.albedo = image'["albedo"][1].original
          /\ t.normal = image'["normal"][1].original
          /\ t.height = (IF image'["height"] = <<>> THEN <<>>
                         ELSE <<image'["height"][1].original>>)
          /\ t.ao = image'["ao"]
          /\ t.roughness = image'["roughness"]
          /\ t.normal_format = normal_map_format
          /\ t.roughness_format = roughness_format
          /\ t.output_format = output_format
          /\ <<t.output_dir>> = output_directory]_vars
  /\ [][\A t \in run_tasks \ run_tasks' :
          (/\ processing_channel' # processing_channel
           /\ IsOk(processing_channel'[Len(processing_channel')].result))
          =>
          LET ap == <<t.output_dir, AlbedoFileOf(t.output_format)>>
              np == <<t.output_dir, NormalFileOf(t.output_format)>>
          IN /\ disk'[ap] = WrittenBy(t, AlbedoPipeline(t))
             /\ disk'[np] = WrittenBy(t, NormalPipeline(t))
             /\ \A q \in OutPaths \ {ap, np} : disk'[q] = disk[q]]_vars

RunUsesSnapshotWitness ==
  /\ processing_state = <<"Done">>
  /\ output_directory = <<"out2">>
  /\ disk[<<"out1", "albedo.png">>] # <<>>
  /\ disk[<<"out1", "normal.png">>] # <<>>
  /\ disk[<<"out2", "albedo.png">>] = <<>>

\* C25: At most one run task exists at any time (running, or finished with its
\* result not yet received), the processing state is Processing exactly when
\* there is one, and so a result is only ever received in state Processing.
OneRunTask ==
  /\ Cardinality(run_tasks) + Len(processing_channel) <= 1
  /\ processing_state = <<"Processing">> <=>
       (run_tasks # {} \/ processing_channel # <<>>)

\* C26: A failed load does not destroy data. For every undelivered load result
\* that is an error (the file does not decode, or the image fails validation),
\* applying it leaves every stored image and preview as it is - the slot's own
\* included - and changes only that slot's load state, to Error with the
\* failure's message.
FailedLoadKeepsData ==
  \A m \in PendingResults :
    ~IsOk(m[2]) =>
      LET after == ApplyLoadResult(CurrentSlots, m) IN
      /\ after.image = image
      /\ after.texture = texture
      /\ after.load_state = [load_state EXCEPT ![m[1]] = <<"Error", m[2][2]>>]
      /\ m[2][2] \in {"Format error decoding Png", "Image must be square",
                      "Image dimensions must be power of 2",
                      "Image must be at least 512x512"}

FailedLoadKeepsDataWitness ==
  /\ map["height"] = <<"small.png">>
  /\ load_state["height"] = <<"Error", "Image must be at least 512x512">>
  /\ image["height"] # <<>>
  /\ texture["height"] # <<>>
  /\ load_tasks[<<"albedo", "bad.png">>] = 1

====
